---- MODULE Spec2Model ----
(***************************************************************************)
(* Model of the Runtime orchestrator of sb3-js (src/src/runtime.ts, the    *)
(* version with monitors, lines 230-574): project and stage lifecycle, the *)
(* stepping loop, the input listeners and the monitor views; and of        *)
(* anyAbortSignal (src/src/util/any-abort-signal.ts).                      *)
(*                                                                         *)
(* The Runtime object and the platform objects it talks to (timers, DOM    *)
(* listener tables, the interpreter, the projects) form one state record.  *)
(* Every method is an operator from state record to state record, composed *)
(* in the order of the statements of the method; an action applies one     *)
(* public call or one platform callback to the current state.              *)
(* `trace` is the list of effects of the last call, in execution order.    *)
(***************************************************************************)
EXTENDS Integers, Sequences, FiniteSets, TLC

\* ---------------------------------------------------------------- bounds
NumProjects == 2
NumStages == 2
NumMonitors == 2
NumSignals == 2
MaxInputs == 3

Projects == 1..NumProjects
Stages == 1..NumStages
Monitors == 1..NumMonitors

\* Monitor m is declared by project MonitorOwner(m): the first project declares
\* the first two monitors, so that one project shows two monitors at once.
MonitorOwner(m) == IF m <= 2 THEN 1 ELSE (m % NumProjects) + 1

\* Native key identifiers delivered by the platform.
DomKeys == {"a", "ArrowUp", "F1"}

\* Client positions of pointer events.
ClientPoints == {-100, 10, 250, 1000} \X {-50, 0, 180, 700}

\* Bounding rectangles of a stage element; an element that is not rendered has
\* an empty one.
StageRects ==
    [left : {10}, top : {0}, width : {0, 480, 960}, height : {0, 360}]

\* Positions recorded for a monitor in the project: 0 is none, 1 the first slot.
RecordedPositions == {0, 1}

\* Results of renderer.pick: 0 is "no target", 1 a sprite.
PickResults == {0, 1}

\* ------------------------------------------------------------- constants
\* stageBounds = Rectangle.fromBounds(-240, 240, -180, 180)
StageLeft == -240
StageRight == 240
StageBottom == -180
StageTop == 180
StageWidth == StageRight - StageLeft
StageHeight == StageTop - StageBottom

\* The target id used in the trace for the project's stage target.
StageTarget == -1

VARIABLES
    project,                    \* this.project (0 = null)
    renderer,                   \* this.renderer (0 = null)
    stage,                      \* this.stage (0 = null)
    monitorViews,               \* this.monitorViews: monitor -> view (0 = no entry)
    steppingInterval,           \* this.steppingInterval (0 = null)
    unregisterPreviousProject,  \* closure: captured project and controller
    unsetPreviousStage,         \* closure: captured renderer and listener scope
    interpProject,              \* project last given to interpreter.setProject
    interpRenderer,             \* renderer last given to interpreter.setRenderer
    mousePosition,              \* io.mousePosition
    mouseDown,                  \* io.mouseDown
    keysDown,                   \* io.keysDown
    timers,                     \* platform: active interval timers
    registered,                 \* per project: register() calls not yet undone
    renderers,                  \* Renderer objects constructed and not destroyed
    stageListeners,             \* DOM: <<scope, stage>> input listener groups
    projectListeners,           \* <<controller, project>> createmonitor listeners
    monitorListeners,           \* <<controller, monitor>> updatemonitor listeners
    sliderListeners,            \* <<view, monitor>> sliderchange listeners
    monitors,                   \* per project: project.monitors, in order
    visible,                    \* per monitor: monitor.visible
    position,                   \* per monitor: monitor.position (0 = none)
    hasStage,                   \* per project: project.stage is not null
    preexisting,                \* monitors present at the last bind
    detachedStages,             \* stages that were attached and are not now
    detachedViews,              \* views removed from the tracking map
    trace,                      \* effects of the last call, in order
    lastOp,                     \* the last call: <<name, argument>>
    keyHistory,                 \* the keys of the last key events
    anyAbort                    \* one combination made by anyAbortSignal

runtimeVars == <<project, renderer, stage, monitorViews, steppingInterval,
          unregisterPreviousProject, unsetPreviousStage, interpProject,
          interpRenderer, mousePosition, mouseDown, keysDown, timers,
          registered, renderers, stageListeners, projectListeners,
          monitorListeners, sliderListeners, monitors, visible, position,
          hasStage, preexisting, detachedStages, detachedViews, trace, lastOp,
          keyHistory>>

vars == <<runtimeVars, anyAbort>>

\* The null closures.
NoProjectClosure == [project |-> 0, controller |-> 0]
NoStageClosure == [renderer |-> 0, scope |-> 0]

\* The current state as one record.
Cur ==
    [project |-> project, renderer |-> renderer, stage |-> stage,
     monitorViews |-> monitorViews, steppingInterval |-> steppingInterval,
     unregisterPreviousProject |-> unregisterPreviousProject,
     unsetPreviousStage |-> unsetPreviousStage,
     interpProject |-> interpProject, interpRenderer |-> interpRenderer,
     mousePosition |-> mousePosition, mouseDown |-> mouseDown,
     keysDown |-> keysDown, timers |-> timers, registered |-> registered,
     renderers |-> renderers, stageListeners |-> stageListeners,
     projectListeners |-> projectListeners,
     monitorListeners |-> monitorListeners,
     sliderListeners |-> sliderListeners, monitors |-> monitors,
     visible |-> visible, position |-> position, hasStage |-> hasStage,
     preexisting |-> preexisting,
     detachedStages |-> detachedStages, detachedViews |-> detachedViews,
     trace |-> <<>>, failed |-> FALSE]

\* No key event precedes: the key of the last keydown, the keys held before and
\* after it, and the key of the keyup that is the last call.
NoKeys == [down |-> "", before |-> {}, after |-> {}, up |-> ""]

\* The state record s becomes the next state, as the result of call op; keys is
\* the record of the last key events.
ApplyKeys(s, op, keys) ==
    /\ project' = s.project
    /\ renderer' = s.renderer
    /\ stage' = s.stage
    /\ monitorViews' = s.monitorViews
    /\ steppingInterval' = s.steppingInterval
    /\ unregisterPreviousProject' = s.unregisterPreviousProject
    /\ unsetPreviousStage' = s.unsetPreviousStage
    /\ interpProject' = s.interpProject
    /\ interpRenderer' = s.interpRenderer
    /\ mousePosition' = s.mousePosition
    /\ mouseDown' = s.mouseDown
    /\ keysDown' = s.keysDown
    /\ timers' = s.timers
    /\ registered' = s.registered
    /\ renderers' = s.renderers
    /\ stageListeners' = s.stageListeners
    /\ projectListeners' = s.projectListeners
    /\ monitorListeners' = s.monitorListeners
    /\ sliderListeners' = s.sliderListeners
    /\ monitors' = s.monitors
    /\ visible' = s.visible
    /\ position' = s.position
    /\ hasStage' = s.hasStage
    /\ preexisting' = s.preexisting
    /\ detachedStages' = s.detachedStages
    /\ detachedViews' = s.detachedViews
    /\ trace' = s.trace
    /\ lastOp' = op
    /\ keyHistory' = keys
    /\ UNCHANGED anyAbort

Apply(s, op) == ApplyKeys(s, op, NoKeys)

\* ---------------------------------------------------------------- helpers
\* Append effect <<e, a>> to the trace of the call.
Log(s, e, a) == [s EXCEPT !.trace = Append(@, <<e, a>>)]

\* An exception leaves the call: the remaining statements do not run.
Throw(s, code) == [Log(s, "throw", code) EXCEPT !.failed = TRUE]

\* The identity of a newly created object: the least id not in use.
Fresh(used) ==
    CHOOSE i \in 1..(Cardinality(used) + 1) :
        i \notin used /\ \A j \in 1..(i - 1) : j \in used

\* The elements of a finite set of integers, ascending.
RECURSIVE Ascending(_)
Ascending(S) ==
    IF S = {} THEN <<>>
    ELSE LET lo == CHOOSE x \in S : \A y \in S : x <= y
         IN <<lo>> \o Ascending(S \ {lo})

SeqRange(q) == {q[i] : i \in 1..Len(q)}

\* Positions of effect e in a trace.
At(tr, e) == {i \in 1..Len(tr) : tr[i][1] = e}
Has(tr, e) == At(tr, e) # {}

\* Error codes in the trace.
ErrNoProject == 1
ErrNoStageTarget == 2
ErrRenderer == 3
ErrSliderTarget == 4

\* Monitors with an entry in the tracking map, and the tracked views.
Tracked(s) == {m \in Monitors : s.monitorViews[m] # 0}
TrackedViews(s) == {s.monitorViews[m] : m \in Tracked(s)}

\* ------------------------------------------------------------ start / stop
\* Runtime.stop
Stop(s) ==
    IF s.steppingInterval = 0 THEN s
    ELSE [Log(s, "clearInterval", s.steppingInterval) EXCEPT
            !.timers = @ \ {s.steppingInterval},
            !.steppingInterval = 0]

\* Runtime.removeMonitorView
RemoveMonitorView(s, m) ==
    IF s.monitorViews[m] = 0 THEN s
    ELSE LET v == s.monitorViews[m]
             s1 == Log(s, "view.remove", v)
             s2 == [Log(s1, "view.abort", v) EXCEPT
                      !.sliderListeners = {l \in @ : l[1] # v}]
         IN [s2 EXCEPT !.monitorViews[m] = 0,
                       !.detachedViews = @ \cup {v}]

\* ----------------------------------------------------------- setProject
\* Abort controllers of project scopes that still have a listener or are
\* held by the pending unregister closure.
ControllersInUse(s) ==
    ({l[1] : l \in s.projectListeners} \cup {l[1] : l \in s.monitorListeners}
        \cup {s.unregisterPreviousProject.controller}) \ {0}

\* Runtime.handleMonitorCreated(signal, event), the signal being controller c's
HandleMonitorCreated(s, c, m) ==
    IF s.stage = 0 THEN s
    ELSE [Log(s, "listen.updatemonitor", m) EXCEPT
            !.monitorListeners = @ \cup {<<c, m>>}]

\* for (const {monitor} of project.monitors) this.handleMonitorCreated(...)
RECURSIVE ReplayCreated(_, _, _)
ReplayCreated(s, c, ms) ==
    IF ms = <<>> THEN s
    ELSE ReplayCreated(HandleMonitorCreated(s, c, Head(ms)), c, Tail(ms))

\* for (const {monitor} of project.monitors) this.removeMonitorView(monitor)
RECURSIVE RemoveAllViews(_, _)
RemoveAllViews(s, ms) ==
    IF ms = <<>> THEN s
    ELSE RemoveAllViews(RemoveMonitorView(s, Head(ms)), Tail(ms))

\* controller.abort() of a project scope: its listeners are removed.
AbortProjectScope(s, c) ==
    [Log(s, "abortProject", c) EXCEPT
        !.projectListeners = {l \in @ : l[1] # c},
        !.monitorListeners = {l \in @ : l[1] # c}]

\* Mutant: the teardown leaves the interpreter bound to the project.
RunUnregisterProjectEngineKept(s) ==
    LET cl == s.unregisterPreviousProject
        s1 == [s EXCEPT !.project = 0]
        s2 == Stop(s1)
        s3 == RemoveAllViews(s2, s2.monitors[cl.project])
        s4 == IF s3.renderer # 0 THEN Log(s3, "penLayer.clear", s3.renderer)
              ELSE s3
        s5 == [Log(s4, "unregister", cl.project) EXCEPT
                 !.registered[cl.project] = @ - 1]
    IN AbortProjectScope(s5, cl.controller)

\* Mutant: the teardown leaves the monitor views in place.
RunUnregisterProjectKeepingViews(s) ==
    LET cl == s.unregisterPreviousProject
        s2 == Stop([s EXCEPT !.project = 0])
        s4 == IF s2.renderer # 0 THEN Log(s2, "penLayer.clear", s2.renderer)
              ELSE s2
        s5 == [Log(s4, "unregister", cl.project) EXCEPT
                 !.registered[cl.project] = @ - 1]
        s6 == AbortProjectScope(s5, cl.controller)
    IN [Log(s6, "interp.setProject", 0) EXCEPT !.interpProject = 0]

\* The closure stored in unregisterPreviousProject, run on state s.
RunUnregisterProject(s) ==
    LET cl == s.unregisterPreviousProject
        s1 == [s EXCEPT !.project = 0]
        s2 == Stop(s1)
        s3 == RemoveAllViews(s2, s2.monitors[cl.project])
        s4 == IF s3.renderer # 0 THEN Log(s3, "penLayer.clear", s3.renderer)
              ELSE s3
        s5 == [Log(s4, "unregister", cl.project) EXCEPT
                 !.registered[cl.project] = @ - 1]
        s6 == AbortProjectScope(s5, cl.controller)
    IN [Log(s6, "interp.setProject", 0) EXCEPT !.interpProject = 0]

\* Mutant: the teardown of the project also releases the held keys and the
\* pointer button.
TeardownPreviousProjectResetsInput(s) ==
    IF s.unregisterPreviousProject = NoProjectClosure THEN s
    ELSE [RunUnregisterProject(s) EXCEPT
            !.unregisterPreviousProject = NoProjectClosure,
            !.keysDown = {}, !.mouseDown = FALSE]

\* Mutant: the previous callback is dropped without being run.
TeardownPreviousProjectDropped(s) ==
    [s EXCEPT !.unregisterPreviousProject = NoProjectClosure]

\* if (this.unregisterPreviousProject) {...; this.unregisterPreviousProject = null}
TeardownPreviousProject(s) ==
    IF s.unregisterPreviousProject = NoProjectClosure THEN s
    ELSE [RunUnregisterProject(s) EXCEPT
            !.unregisterPreviousProject = NoProjectClosure]

\* The part of setProject that binds a non-null project p.
BindProject(s, p) ==
    LET s1 == [Log(s, "interp.setProject", p) EXCEPT !.interpProject = p]
        c == Fresh(ControllersInUse(s1))
        s2 == [Log(s1, "listen.createmonitor", c) EXCEPT
                 !.projectListeners = @ \cup {<<c, p>>}]
        s3 == ReplayCreated(s2, c, s2.monitors[p])
        s4 == [Log(s3, "register", p) EXCEPT !.registered[p] = @ + 1]
    IN [s4 EXCEPT !.unregisterPreviousProject =
                      [project |-> p, controller |-> c]]

\* Runtime.setProject
SetProject(s, p) ==
    LET s1 == TeardownPreviousProject(s)
        s2 == [s1 EXCEPT !.project = p,
                         !.preexisting =
                            IF p = 0 THEN {} ELSE SeqRange(s1.monitors[p])]
    IN IF p = 0 THEN s2 ELSE BindProject(s2, p)

\* ----------------------------------------------------------- attachStage
RenderersInUse(s) == (s.renderers \cup {s.unsetPreviousStage.renderer}) \ {0}
ScopesInUse(s) ==
    ({l[1] : l \in s.stageListeners} \cup {s.unsetPreviousStage.scope}) \ {0}

\* Mutant: the listeners are registered without the signal, so that abort
\* leaves them in place.
AbortStageScopeLeavesListeners(s, g) == Log(s, "abortStage", g)

\* abortController.abort() of an input listener group
AbortStageScope(s, g) ==
    [Log(s, "abortStage", g) EXCEPT
        !.stageListeners = {l \in @ : l[1] # g}]

\* Mutant: the teardown of the stage also removes the monitor views.
RunUnsetStageRemovesViews(s) ==
    LET cl == s.unsetPreviousStage
        s1 == [s EXCEPT !.renderer = 0]
        s2 == [Log(s1, "interp.setRenderer", 0) EXCEPT !.interpRenderer = 0]
        s3 == [s2 EXCEPT !.stage = 0,
                         !.detachedStages = @ \cup ({s.stage} \ {0})]
        s4 == [Log(s3, "renderer.destroy", cl.renderer) EXCEPT
                 !.renderers = @ \ {cl.renderer}]
        s5 == IF s4.project = 0 THEN s4
              ELSE RemoveAllViews(s4, s4.monitors[s4.project])
    IN AbortStageScope(s5, cl.scope)

\* Mutant: the teardown does not destroy the renderer.
RunUnsetStageNoDestroy(s) ==
    LET cl == s.unsetPreviousStage
        s1 == [s EXCEPT !.renderer = 0]
        s2 == [Log(s1, "interp.setRenderer", 0) EXCEPT !.interpRenderer = 0]
        s3 == [s2 EXCEPT !.stage = 0,
                         !.detachedStages = @ \cup ({s.stage} \ {0})]
    IN AbortStageScope(s3, cl.scope)

\* The closure stored in unsetPreviousStage, run on state s.
RunUnsetStage(s) ==
    LET cl == s.unsetPreviousStage
        s1 == [s EXCEPT !.renderer = 0]
        s2 == [Log(s1, "interp.setRenderer", 0) EXCEPT !.interpRenderer = 0]
        s3 == [s2 EXCEPT !.stage = 0,
                         !.detachedStages = @ \cup ({s.stage} \ {0})]
        s4 == [Log(s3, "renderer.destroy", cl.renderer) EXCEPT
                 !.renderers = @ \ {cl.renderer}]
    IN AbortStageScope(s4, cl.scope)

\* if (this.unsetPreviousStage) {...; this.unsetPreviousStage = null}
TeardownPreviousStage(s) ==
    IF s.unsetPreviousStage = NoStageClosure THEN s
    ELSE [RunUnsetStage(s) EXCEPT !.unsetPreviousStage = NoStageClosure]

\* Runtime.setupEventListeners: the result is <<state, scope>>, scope 0 being
\* the empty teardown.
SetupEventListeners(s, st) ==
    IF s.renderer = 0 THEN <<s, 0>>
    ELSE LET g == Fresh(ScopesInUse(s))
         IN <<[Log(s, "listenStage", g) EXCEPT
                 !.stageListeners = @ \cup {<<g, st>>}], g>>

\* attachStage from the Renderer constructor's return on.
BindRenderer(s, st) ==
    LET r == Fresh(RenderersInUse(s))
        s1 == [Log(s, "new Renderer", r) EXCEPT
                 !.renderers = @ \cup {r}, !.renderer = r]
        s2 == [Log(s1, "interp.setRenderer", r) EXCEPT !.interpRenderer = r]
        sg == SetupEventListeners(s2, st)
        s3 == [sg[1] EXCEPT !.stage = st, !.detachedStages = @ \ {st}]
    IN [s3 EXCEPT !.unsetPreviousStage = [renderer |-> r, scope |-> sg[2]]]

\* Mutant: this.stage is assigned before the renderer is constructed.
BindStageStageFirst(s, st, ok) ==
    IF ~ok THEN Throw([s EXCEPT !.stage = st], ErrRenderer)
    ELSE BindRenderer(s, st)

\* The part of attachStage that binds a non-null stage st; ok is whether the
\* Renderer constructor returns (it throws when a shader or program fails).
BindStage(s, st, ok) ==
    IF ~ok THEN Throw(s, ErrRenderer) ELSE BindRenderer(s, st)

\* Runtime.attachStage
AttachStage(s, st, ok) ==
    LET s1 == TeardownPreviousStage(s)
    IN IF st = 0 THEN s1 ELSE BindStage(s1, st, ok)

\* ------------------------------------------------------------------ step
\* The loop of stepMonitors over project.monitors.
RECURSIVE LaunchMonitors(_, _)
LaunchMonitors(s, ms) ==
    IF ms = <<>> THEN s
    ELSE LaunchMonitors(
            IF s.visible[Head(ms)] THEN Log(s, "launch", Head(ms)) ELSE s,
            Tail(ms))

\* Runtime.stepMonitors
StepMonitors(s) ==
    IF s.project = 0 THEN s
    ELSE IF ~s.hasStage[s.project] THEN Throw(s, ErrNoStageTarget)
    ELSE LaunchMonitors(s, s.monitors[s.project])

\* this.renderer?.draw(this.project.targets)
Draw(s) == IF s.renderer = 0 THEN s ELSE Log(s, "draw", s.renderer)

\* Mutant: step without the project check.
StepUnchecked(s) ==
    LET s1 == Log(s, "stepThreads", s.project)
        s2 == StepMonitors(s1)
    IN IF s2.failed THEN s2 ELSE Draw(s2)

\* Runtime.step
Step(s) ==
    IF s.project = 0 THEN Throw(s, ErrNoProject)
    ELSE LET s1 == Log(s, "stepThreads", s.project)
             s2 == StepMonitors(s1)
         IN IF s2.failed THEN s2 ELSE Draw(s2)

\* Mutant: start steps before it arms the timer.
StartStepFirst(s) ==
    IF s.steppingInterval # 0 THEN s
    ELSE LET s1 == Step(s)
             t == Fresh(s1.timers)
         IN IF s1.failed THEN s1
            ELSE [Log(s1, "setInterval", t) EXCEPT
                    !.timers = @ \cup {t}, !.steppingInterval = t]

\* Mutant: start without the check of steppingInterval.
StartUnguarded(s) ==
    LET t == Fresh(s.timers)
        s1 == [Log(s, "setInterval", t) EXCEPT
                 !.timers = @ \cup {t}, !.steppingInterval = t]
    IN Step(s1)

\* Runtime.start
Start(s) ==
    IF s.steppingInterval # 0 THEN s
    ELSE LET t == Fresh(s.timers)
             s1 == [Log(s, "setInterval", t) EXCEPT
                      !.timers = @ \cup {t}, !.steppingInterval = t]
         IN Step(s1)

\* -------------------------------------------------------------- monitors
ViewsInUse(s) == TrackedViews(s) \cup {l[1] : l \in s.sliderListeners}

\* The updatemonitor listeners of monitor m, in the order of registration.
UpdateListeners(s, m) ==
    Ascending({l[1] : l \in {k \in s.monitorListeners : k[2] = m}})

RECURSIVE HandleMonitorUpdated(_, _)
RECURSIVE DispatchUpdated(_, _, _)

\* view.getBounds() of the view of monitor o: the slot of the position it was
\* last rendered with, 0 being null.
GetBounds(s, o) == s.position[o]

\* view.layout(monitorRects): the first slot that overlaps none of the
\* rectangles.
Layout(rects) == Fresh(rects)

\* monitor.update({position}): the position is assigned, then the monitor
\* dispatches updatemonitor.
MonitorUpdatePosition(s, m, pos) ==
    LET s1 == [Log(s, "monitor.update", m) EXCEPT !.position[m] = pos]
    IN DispatchUpdated(s1, UpdateListeners(s1, m), m)

\* Mutant: the loop stops at the monitor itself instead of skipping it.
CollectRectsUntilSelf(s, m, ms) ==
    {ms[i] : i \in {j \in 1..Len(ms) :
        /\ \A k \in 1..j : ms[k] # m
        /\ s.monitorViews[ms[j]] # 0
        /\ GetBounds(s, ms[j]) # 0}}

\* The loop that collects monitorRects for monitor m over the monitors ms:
\* the monitors whose bounds are collected.
CollectRects(s, m, ms) ==
    {ms[i] : i \in {j \in 1..Len(ms) :
        /\ ms[j] # m
        /\ s.monitorViews[ms[j]] # 0
        /\ GetBounds(s, ms[j]) # 0}}

\* The effects of the collecting loop, in the order of project.monitors.
RECURSIVE LogBounds(_, _, _)
LogBounds(s, ms, collected) ==
    IF ms = <<>> THEN s
    ELSE LogBounds(
            IF Head(ms) \in collected THEN Log(s, "getBounds", Head(ms)) ELSE s,
            Tail(ms), collected)

\* Mutant: the placement runs whenever the view was just created.
NeedsPlacementOnCreate(s, m, created) == created

\* if (!monitor.position); created is whether this call created the view.
NeedsPlacement(s, m, created) == s.position[m] = 0

\* The placement block of handleMonitorUpdated.
PlaceMonitor(s, m) ==
    LET others == CollectRects(s, m, s.monitors[s.project])
        s1 == LogBounds(s, s.monitors[s.project], others)
        slot == Layout({GetBounds(s1, o) : o \in others})
        s2 == MonitorUpdatePosition(Log(s1, "layout", slot), m, slot)
    IN Log(s2, "view.update", s2.monitorViews[m])

\* Runtime.handleMonitorUpdated
HandleMonitorUpdated(s, m) ==
    IF s.project = 0 \/ s.stage = 0 THEN s
    ELSE IF ~s.visible[m] THEN RemoveMonitorView(s, m)
    ELSE LET created == s.monitorViews[m] = 0
             s1 == IF ~created THEN s
                   ELSE LET v == Fresh(ViewsInUse(s))
                        IN [Log(s, "createMonitorView", v) EXCEPT
                              !.monitorViews[m] = v,
                              !.sliderListeners = @ \cup {<<v, m>>},
                              !.detachedViews = @ \ {v}]
             s2 == Log(s1, "view.update", s1.monitorViews[m])
             s3 == IF NeedsPlacement(s2, m, created) THEN PlaceMonitor(s2, m)
                   ELSE s2
         IN Log(s3, "view.setColor", s3.monitorViews[m])

\* The sliderchange listener of the view of monitor m: hasHandler is whether the
\* block declares a monitorSliderHandler, ownTarget whether monitor.target is set.
OnSliderChange(s, m, hasHandler, ownTarget) ==
    IF ~hasHandler THEN s
    ELSE IF ~ownTarget /\ (s.project = 0 \/ ~s.hasStage[s.project])
         THEN Throw(s, ErrSliderTarget)
    ELSE Log(s, "sliderHandler", m)

\* ----------------------------------------------------------------- input
Max(a, b) == IF a >= b THEN a ELSE b
Min(a, b) == IF a <= b THEN a ELSE b

\* Math.round(delta * (extent / size) + origin) for size > 0: Math.round rounds
\* halves up.
ScaleRound(delta, extent, size, origin) ==
    (2 * delta * extent + 2 * origin * size + size) \div (2 * size)

\* JavaScript numbers: a finite value, an infinity (by its sign) or NaN.
Num(n) == <<"num", n>>
Infinity(sign) == <<"inf", sign>>
NaN == <<"nan", 0>>

\* Math.round(delta * (extent / size) + origin) for size >= 0: extent / 0 is
\* Infinity, and 0 * Infinity is NaN.
ScaleRoundJs(delta, extent, size, origin) ==
    IF size > 0 THEN Num(ScaleRound(delta, extent, size, origin))
    ELSE IF delta = 0 THEN NaN
    ELSE Infinity(IF delta > 0 THEN 1 ELSE -1)

\* Math.min(bound, v) and Math.max(bound, v): NaN when v is NaN.
JsMin(bound, v) ==
    CASE v[1] = "nan" -> NaN
      [] v[1] = "inf" -> IF v[2] > 0 THEN Num(bound) ELSE v
      [] OTHER -> Num(Min(bound, v[2]))

JsMax(bound, v) ==
    CASE v[1] = "nan" -> NaN
      [] v[1] = "inf" -> IF v[2] < 0 THEN Num(bound) ELSE v
      [] OTHER -> Num(Max(bound, v[2]))

\* -v
Negate(v) == IF v[1] = "nan" THEN NaN ELSE <<v[1], -v[2]>>

\* stageCoordsFromPointerEvent; rect is stage.getBoundingClientRect()
StageCoordsFromPointerEvent(rect, pt) ==
    LET x == JsMax(StageLeft, JsMin(StageRight,
                ScaleRoundJs(pt[1] - rect.left, StageWidth, rect.width, StageLeft)))
        y == JsMax(StageBottom, JsMin(StageTop,
                ScaleRoundJs(pt[2] - rect.top, StageHeight, rect.height, StageBottom)))
    IN <<x, Negate(y)>>

\* IO.domToScratchKey: "" is null.
DomToScratchKey(k) ==
    CASE k = "a" -> "a"
      [] k = "ArrowUp" -> "up arrow"
      [] OTHER -> ""

\* The pointermove listener
OnPointerMove(s, rect, pt) ==
    [s EXCEPT !.mousePosition = StageCoordsFromPointerEvent(rect, pt)]

\* Mutant: only a target that was hit is clicked.
OnPointerDownHitOnly(s, hit) ==
    LET s1 == [s EXCEPT !.mouseDown = TRUE]
    IN IF s1.project = 0 \/ s1.renderer = 0 THEN s1
       ELSE LET s2 == Log(s1, "pick", hit)
            IN IF hit # 0 THEN Log(s2, "click", hit) ELSE s2

\* The pointerdown listener; hit is the result of renderer.pick.
OnPointerDown(s, hit) ==
    LET s1 == [s EXCEPT !.mouseDown = TRUE]
    IN IF s1.project = 0 \/ s1.renderer = 0 THEN s1
       ELSE LET s2 == Log(s1, "pick", hit)
            IN IF hit # 0 THEN Log(s2, "click", hit)
               ELSE IF s2.hasStage[s2.project] THEN Log(s2, "click", StageTarget)
               ELSE s2

\* The pointerup listener
OnPointerUp(s) == [s EXCEPT !.mouseDown = FALSE]

\* Mutant: the keydown listener does not test the translation for null.
OnKeyDownUnchecked(s, k) ==
    LET s1 == Log(s, "preventDefault", 0)
        s2 == [s1 EXCEPT !.keysDown = @ \cup {DomToScratchKey(k)}]
    IN Log(s2, "startHats", 0)

\* The keydown listener
OnKeyDown(s, k) ==
    LET key == DomToScratchKey(k)
    IN IF key = "" THEN s
       ELSE LET s1 == Log(s, "preventDefault", 0)
                s2 == [s1 EXCEPT !.keysDown = @ \cup {key}]
            IN Log(s2, "startHats", 0)

\* Mutant: the keyup listener leaves the key in the set.
OnKeyUpKeepsKey(s, k) == s

\* The keyup listener
OnKeyUp(s, k) ==
    LET key == DomToScratchKey(k)
    IN IF key = "" THEN s ELSE [s EXCEPT !.keysDown = @ \ {key}]

\* One listener of the group of scope g on stage st receiving event ev.
StageListener(s, g, st, ev) ==
    LET s1 == Log(s, "on." \o ev.type, g)
    IN CASE ev.type = "pointermove" -> OnPointerMove(s1, ev.rect, ev.point)
         [] ev.type = "pointerdown" -> OnPointerDown(s1, ev.hit)
         [] ev.type = "pointerup" -> OnPointerUp(s1)
         [] ev.type = "keydown" -> OnKeyDown(s1, ev.key)
         [] ev.type = "keyup" -> OnKeyUp(s1, ev.key)

\* pointermove, pointerup and keyup listeners are on the window, pointerdown
\* and keydown listeners on the stage element.
OnWindow(type) == type \in {"pointermove", "pointerup", "keyup"}

StageOfScope(s, g) == (CHOOSE l \in s.stageListeners : l[1] = g)[2]

\* The platform delivers ev, for stage element st, to the listeners in gs (in
\* the order of registration).
RECURSIVE DispatchInput(_, _, _)
DispatchInput(s, gs, ev) ==
    IF gs = <<>> THEN s
    ELSE DispatchInput(
            StageListener(s, Head(gs), StageOfScope(s, Head(gs)), ev),
            Tail(gs), ev)

\* The scopes whose listeners receive an event of this type on element st.
Receivers(s, type, st) ==
    Ascending({l[1] : l \in {k \in s.stageListeners :
                                OnWindow(type) \/ k[2] = st}})

InputEvent(s, st, ev) == DispatchInput(s, Receivers(s, ev.type, st), ev)

\* The project of monitor m dispatches createmonitor after adding it.
RECURSIVE DispatchCreated(_, _, _)
DispatchCreated(s, cs, m) ==
    IF cs = <<>> THEN s
    ELSE DispatchCreated(
            HandleMonitorCreated(Log(s, "on.createmonitor", Head(cs)), Head(cs), m),
            Tail(cs), m)

\* pos is the position recorded for the monitor in the project, 0 being none.
CreateMonitor(s, m, pos) ==
    LET p == MonitorOwner(m)
        s1 == [s EXCEPT !.monitors[p] = Append(@, m), !.position[m] = pos]
    IN DispatchCreated(s1,
          Ascending({l[1] : l \in {k \in s1.projectListeners : k[2] = p}}), m)

\* Monitor m dispatches updatemonitor to the listeners cs.
DispatchUpdated(s, cs, m) ==
    IF cs = <<>> THEN s
    ELSE DispatchUpdated(
            HandleMonitorUpdated(Log(s, "on.updatemonitor", Head(cs)), m),
            Tail(cs), m)

UpdateMonitor(s, m) == DispatchUpdated(s, UpdateListeners(s, m), m)

\* View v dispatches sliderchange.
SliderChange(s, v, hasHandler, ownTarget) ==
    IF \E l \in s.sliderListeners : l[1] = v
    THEN LET m == (CHOOSE l \in s.sliderListeners : l[1] = v)[2]
         IN OnSliderChange(Log(s, "on.sliderchange", v), m, hasHandler, ownTarget)
    ELSE s

\* ------------------------------------------------------- anyAbortSignal
\* The signals that can be given to anyAbortSignal; 0 is null or undefined.
InputSignals == 1..NumSignals

\* The argument lists of anyAbortSignal.
SignalLists == UNION {[1..n -> 0..NumSignals] : n \in 0..MaxInputs}

\* No combination is made.
NoCombination ==
    [signals |-> <<>>, returned |-> FALSE, aborted |-> {}, listeners |-> {},
     fired |-> FALSE, abortEvents |-> 0, onAbortCalls |-> 0]

\* controller.abort(): the signal of the controller fires once.
ControllerAbort(a) ==
    IF a.fired THEN a
    ELSE [a EXCEPT !.fired = TRUE, !.abortEvents = @ + 1]

\* function onAbort
OnAbort(a) ==
    LET a1 == ControllerAbort([a EXCEPT !.onAbortCalls = @ + 1])
    IN [a1 EXCEPT !.listeners = @ \ SeqRange(a.signals)]

RECURSIVE AttachLoop(_, _)

\* Mutant: the loop does not test signal.aborted.
AttachLoopNoAbortedTest(a, sigs) ==
    IF sigs = <<>> THEN a
    ELSE AttachLoop(
            IF Head(sigs) = 0 THEN a
            ELSE [a EXCEPT !.listeners = @ \cup {Head(sigs)}],
            Tail(sigs))

\* Mutant: the loop goes on after an input that has already fired.
AttachLoopNoBreak(a, sigs) ==
    IF sigs = <<>> THEN a
    ELSE IF Head(sigs) # 0 /\ Head(sigs) \in a.aborted
         THEN AttachLoop(OnAbort(a), Tail(sigs))
    ELSE AttachLoop(
            IF Head(sigs) = 0 THEN a
            ELSE [a EXCEPT !.listeners = @ \cup {Head(sigs)}],
            Tail(sigs))

\* for (const signal of signals) { ... }: the loop over the inputs sigs left.
AttachLoop(a, sigs) ==
    IF sigs = <<>> THEN a
    ELSE IF Head(sigs) # 0 /\ Head(sigs) \in a.aborted THEN OnAbort(a)
    ELSE AttachLoop(
            IF Head(sigs) = 0 THEN a
            ELSE [a EXCEPT !.listeners = @ \cup {Head(sigs)}],
            Tail(sigs))

\* anyAbortSignal(...signals)
AnyAbortSignal(a) == [AttachLoop(a, a.signals) EXCEPT !.returned = TRUE]

\* Input signal sg fires: its abort listeners run.
DispatchAbort(a, sg) ==
    LET a1 == [a EXCEPT !.aborted = @ \cup {sg}]
    IN IF sg \in a.listeners THEN OnAbort(a1) ELSE a1

\* --------------------------------------------------------------- actions
Declared == UNION {SeqRange(monitors[p]) : p \in Projects}
KnownViews == ViewsInUse(Cur) \cup detachedViews
NoRect == [left |-> 0, top |-> 0, width |-> 0, height |-> 0]
NoEvent ==
    [type |-> "", key |-> "", point |-> <<0, 0>>, rect |-> NoRect, hit |-> 0]

InitRuntime ==
    /\ project = 0
    /\ renderer = 0
    /\ stage = 0
    /\ monitorViews = [m \in Monitors |-> 0]
    /\ steppingInterval = 0
    /\ unregisterPreviousProject = NoProjectClosure
    /\ unsetPreviousStage = NoStageClosure
    /\ interpProject = 0
    /\ interpRenderer = 0
    /\ mousePosition = <<Num(0), Num(0)>>
    /\ mouseDown = FALSE
    /\ keysDown = {}
    /\ timers = {}
    /\ registered = [p \in Projects |-> 0]
    /\ renderers = {}
    /\ stageListeners = {}
    /\ projectListeners = {}
    /\ monitorListeners = {}
    /\ sliderListeners = {}
    /\ monitors = [p \in Projects |-> <<>>]
    /\ visible = [m \in Monitors |-> TRUE]
    /\ position = [m \in Monitors |-> 0]
    /\ hasStage = [p \in Projects |-> p # NumProjects]
    /\ preexisting = {}
    /\ detachedStages = {}
    /\ detachedViews = {}
    /\ trace = <<>>
    /\ lastOp = <<"init", 0>>
    /\ keyHistory = NoKeys

Init == InitRuntime /\ anyAbort = NoCombination

SetProjectCall == \E p \in 0..NumProjects :
    Apply(SetProject(Cur, p), <<"setProject", p>>)

AttachStageCall == \E st \in 0..NumStages, ok \in BOOLEAN :
    /\ st = 0 => ok
    /\ Apply(AttachStage(Cur, st, ok), <<"attachStage", st>>)

\* Runtime.destroy
DestroyCall == Apply(SetProject(Cur, 0), <<"destroy", 0>>)

StartCall == Apply(Start(Cur), <<"start", 0>>)

StopCall == Apply(Stop(Cur), <<"stop", 0>>)

\* An interval timer fires: its callback is step.
TimerTick == \E t \in timers : Apply(Step(Cur), <<"tick", t>>)

PointerMove == \E pt \in ClientPoints, rect \in StageRects :
    Apply(InputEvent(Cur, 0, [NoEvent EXCEPT !.type = "pointermove",
                                             !.point = pt, !.rect = rect]),
          <<"pointermove", 0>>)

PointerDown == \E st \in Stages, hit \in PickResults :
    Apply(InputEvent(Cur, st, [NoEvent EXCEPT !.type = "pointerdown", !.hit = hit]),
          <<"pointerdown", st>>)

PointerUp ==
    Apply(InputEvent(Cur, 0, [NoEvent EXCEPT !.type = "pointerup"]),
          <<"pointerup", 0>>)

KeyDown == \E st \in Stages, k \in DomKeys :
    LET s == InputEvent(Cur, st, [NoEvent EXCEPT !.type = "keydown", !.key = k])
    IN ApplyKeys(s, <<"keydown", st>>,
                 [down |-> k, before |-> keysDown, after |-> s.keysDown,
                  up |-> ""])

KeyUp == \E k \in DomKeys :
    ApplyKeys(InputEvent(Cur, 0, [NoEvent EXCEPT !.type = "keyup", !.key = k]),
              <<"keyup", 0>>,
              IF lastOp[1] = "keydown" THEN [keyHistory EXCEPT !.up = k]
              ELSE [NoKeys EXCEPT !.up = k])

MonitorCreated == \E m \in Monitors \ Declared, pos \in RecordedPositions :
    Apply(CreateMonitor(Cur, m, pos), <<"createmonitor", m>>)

MonitorUpdated == \E m \in Declared :
    Apply(UpdateMonitor(Cur, m), <<"updatemonitor", m>>)

\* A script shows or hides monitor m.
SetVisible == \E m \in Declared :
    Apply([Cur EXCEPT !.visible[m] = ~@], <<"setVisible", m>>)

SliderChanged == \E v \in KnownViews, hasHandler \in BOOLEAN, ownTarget \in BOOLEAN :
    Apply(SliderChange(Cur, v, hasHandler, ownTarget), <<"sliderchange", v>>)

\* The calls of the embedding host, the timer and the monitors.
Next ==
    \/ SetProjectCall
    \/ AttachStageCall
    \/ DestroyCall
    \/ StartCall
    \/ StopCall
    \/ TimerTick
    \/ MonitorCreated
    \/ MonitorUpdated
    \/ SetVisible
    \/ SliderChanged

Spec == Init /\ [][Next]_vars

\* The bindings, the pointer buttons and the keys.
NextInput ==
    \/ SetProjectCall
    \/ AttachStageCall
    \/ DestroyCall
    \/ PointerDown
    \/ PointerUp
    \/ KeyDown
    \/ KeyUp

SpecInput == Init /\ [][NextInput]_vars

\* The bindings of projects with the pointer and the keys in use.
NextSwap ==
    \/ SetProjectCall
    \/ DestroyCall
    \/ AttachStageCall
    \/ PointerMove
    \/ PointerDown
    \/ KeyDown

SpecSwap == Init /\ [][NextSwap]_vars

\* The stage bindings and the pointer moving over the page.
NextPointer ==
    \/ AttachStageCall
    \/ PointerMove

SpecPointer == Init /\ [][NextPointer]_vars

\* anyAbortSignal is called once, with any argument list; its inputs fire
\* before and after the call.
InitAbort ==
    /\ InitRuntime
    /\ anyAbort \in {[NoCombination EXCEPT !.signals = sigs] : sigs \in SignalLists}

AnyAbortSignalCall ==
    /\ ~anyAbort.returned
    /\ anyAbort' = AnyAbortSignal(anyAbort)
    /\ UNCHANGED runtimeVars

\* An input signal fires; a signal fires once.
InputAbort == \E sg \in InputSignals \ anyAbort.aborted :
    /\ anyAbort' = DispatchAbort(anyAbort, sg)
    /\ UNCHANGED runtimeVars

NextAbort ==
    \/ AnyAbortSignalCall
    \/ InputAbort

SpecAbort == InitAbort /\ [][NextAbort]_vars

\* The bindings and every event source with a cancellation scope.
NextScopes ==
    \/ SetProjectCall
    \/ AttachStageCall
    \/ PointerDown
    \/ PointerUp
    \/ MonitorCreated
    \/ MonitorUpdated
    \/ SetVisible
    \/ SliderChanged

SpecScopes == Init /\ [][NextScopes]_vars

\* ------------------------------------------------------------------ claims
ProjectCall == lastOp[1] \in {"setProject", "destroy"}
TickCall == lastOp[1] \in {"tick", "start"}

\* Positions in the trace of the effects of a project teardown, and of a bind.
ProjectTeardownAt ==
    At(trace, "clearInterval") \cup At(trace, "view.remove")
        \cup At(trace, "view.abort") \cup At(trace, "penLayer.clear")
        \cup At(trace, "unregister") \cup At(trace, "abortProject")
        \cup {i \in 1..Len(trace) : trace[i] = <<"interp.setProject", 0>>}
ProjectBindAt ==
    At(trace, "listen.createmonitor") \cup At(trace, "listen.updatemonitor")
        \cup At(trace, "register")
        \cup {i \in 1..Len(trace) :
                trace[i][1] = "interp.setProject" /\ trace[i][2] # 0}

\* C1: at most one project is registered at any time, the registered project
\* is the one whose teardown is pending, a setProject call runs the teardown
\* of the bound project (loop stopped, unregistered, scope cancelled, engine
\* project null) once and completely before it hands the new project to the
\* engine or registers it.
C1_OneRegisteredProject ==
    /\ \A p \in Projects : registered[p] \in {0, 1}
    /\ \A p, q \in Projects : registered[p] = 1 /\ registered[q] = 1 => p = q
    /\ \A p \in Projects :
        registered[p] = 1 <=> unregisterPreviousProject.project = p
    /\ ProjectCall =>
        /\ \A i \in ProjectTeardownAt, j \in ProjectBindAt : i < j
        /\ Cardinality(At(trace, "unregister")) <= 1
        /\ Has(trace, "unregister") =>
            /\ steppingInterval = 0
            /\ timers = {}
            /\ Has(trace, "abortProject")
            /\ <<"interp.setProject", 0>> \in SeqRange(trace)
            /\ \A l \in projectListeners \cup monitorListeners :
                  l[1] = unregisterPreviousProject.controller

C1_Witness ==
    /\ lastOp[1] = "setProject"
    /\ lastOp[2] # 0
    /\ Has(trace, "clearInterval")
    /\ Has(trace, "unregister")
    /\ Has(trace, "register")

\* The project bindings whose teardown callback has not run: each binding
\* creates one abort controller, which its teardown aborts.
PendingProjectTeardowns == {l[1] : l \in projectListeners}

\* C2: at most one project teardown callback is pending, it is the one the
\* runtime holds, tracked views belong to monitors of the bound project, and
\* after a setProject call that ran a teardown the tracking map is empty, the
\* views having been removed before the first monitor of the next project is
\* subscribed.
C2_TeardownEmptiesViews ==
    /\ Cardinality(PendingProjectTeardowns) <= 1
    /\ PendingProjectTeardowns = {unregisterPreviousProject.controller} \ {0}
    /\ \A m \in Tracked(Cur) :
        project # 0 /\ m \in SeqRange(monitors[project])
    /\ (ProjectCall /\ Has(trace, "unregister")) =>
        /\ Tracked(Cur) = {}
        /\ sliderListeners = {}
        /\ \A i \in At(trace, "view.remove"), j \in At(trace, "listen.updatemonitor") :
              i < j

C2_Witness ==
    /\ lastOp[1] = "setProject"
    /\ Has(trace, "view.remove")
    /\ Has(trace, "listen.updatemonitor")
    /\ detachedViews # {}

\* C3: once a project and a stage are bound, an update notification from a
\* visible monitor that was in the project's collection at bind time leaves
\* that monitor with a view.
C3_PreexistingMonitorGetsView ==
    (/\ lastOp[1] = "updatemonitor"
     /\ project # 0
     /\ stage # 0
     /\ lastOp[2] \in preexisting
     /\ visible[lastOp[2]])
        => monitorViews[lastOp[2]] # 0

\* C4: at most one renderer is alive and at most one input listener group is
\* active, they are those of the attached stage; an attachStage call destroys
\* the previous renderer and cancels the previous listener group before it
\* constructs the next renderer, and attachStage(null) leaves neither.
C4_OneRendererOneListenerGroup ==
    /\ Cardinality(renderers) <= 1
    /\ Cardinality(stageListeners) <= 1
    /\ renderers = {renderer} \ {0}
    /\ stageListeners = {<<unsetPreviousStage.scope, stage>>} \ {<<0, 0>>}
    /\ lastOp[1] = "attachStage" =>
        /\ \A i \in At(trace, "renderer.destroy") \cup At(trace, "abortStage"),
              j \in At(trace, "new Renderer") \cup At(trace, "throw") : i < j
        /\ Cardinality(At(trace, "new Renderer")) <= 1
        /\ lastOp[2] = 0 => renderers = {} /\ stageListeners = {}

C4_Witness ==
    /\ lastOp[1] = "attachStage"
    /\ Has(trace, "renderer.destroy")
    /\ Has(trace, "abortStage")
    /\ Has(trace, "new Renderer")

InputListenerRan ==
    {"on.pointermove", "on.pointerdown", "on.pointerup", "on.keydown", "on.keyup"}

\* C5: a listener that runs belongs to a scope that is not detached (input
\* listeners to the attached stage's group, monitor listeners to the bound
\* project's scope, slider listeners to a tracked view), and no listener of a
\* detached scope is left registered; an event on a stage element that is not
\* attached runs nothing.
C5_NoCallbackAfterDetach ==
    /\ \A i \in 1..Len(trace) :
        /\ trace[i][1] \in InputListenerRan =>
            /\ trace[i][2] # 0
            /\ trace[i][2] = unsetPreviousStage.scope
        /\ trace[i][1] \in {"on.createmonitor", "on.updatemonitor"} =>
            /\ trace[i][2] # 0
            /\ trace[i][2] = unregisterPreviousProject.controller
        /\ trace[i][1] = "on.sliderchange" => trace[i][2] \in TrackedViews(Cur)
    /\ \A l \in stageListeners : l = <<unsetPreviousStage.scope, stage>>
    /\ \A l \in projectListeners :
        l = <<unregisterPreviousProject.controller, project>>
    /\ \A l \in monitorListeners :
        l[1] = unregisterPreviousProject.controller /\ project # 0
    /\ \A l \in sliderListeners : monitorViews[l[2]] = l[1]
    /\ (lastOp[1] \in {"pointerdown", "keydown"} /\ lastOp[2] # stage) =>
        trace = <<>>
    /\ (lastOp[1] = "updatemonitor" /\ MonitorOwner(lastOp[2]) # project) =>
        trace = <<>>
    /\ (lastOp[1] = "sliderchange" /\ lastOp[2] \notin TrackedViews(Cur)) =>
        trace = <<>>

C5_Witness ==
    /\ lastOp[1] = "pointerdown"
    /\ lastOp[2] \in detachedStages
    /\ stage # 0
    /\ monitorListeners # {}
    /\ detachedViews # {}
    /\ trace = <<>>

\* C6: in a tick that passed the project check, script stepping comes first,
\* then the monitor launches, then the draw, once each, and the draw happens
\* exactly when a stage is attached.
C6_TickPhases ==
    (TickCall /\ Has(trace, "stepThreads")) =>
        /\ Cardinality(At(trace, "stepThreads")) = 1
        /\ \A i \in At(trace, "stepThreads"), j \in At(trace, "launch") : i < j
        /\ \A i \in At(trace, "stepThreads") \cup At(trace, "launch"),
              j \in At(trace, "draw") : i < j
        /\ Cardinality(At(trace, "draw")) <= 1
        /\ Has(trace, "draw") <=> renderer # 0

\* The ticks attempted by the last call: step was entered.
TickAttempts(tr) ==
    At(tr, "stepThreads")
        \cup {i \in 1..Len(tr) : tr[i] = <<"throw", ErrNoProject>>}

\* C7: at most one interval timer is active; start while running arms no
\* timer and performs no tick; start while stopped arms exactly one timer and
\* attempts exactly one tick; stop while stopped changes nothing.
C7_StartStop ==
    [][/\ Cardinality(timers') <= 1
       /\ timers' = {steppingInterval'} \ {0}
       /\ (lastOp'[1] = "start" /\ steppingInterval # 0) =>
            /\ trace' = <<>>
            /\ timers' = timers
            /\ steppingInterval' = steppingInterval
       /\ (lastOp'[1] = "start" /\ steppingInterval = 0) =>
            /\ Cardinality(At(trace', "setInterval")) = 1
            /\ Cardinality(TickAttempts(trace')) = 1
            /\ Cardinality(timers') = 1
       /\ (lastOp'[1] = "stop" /\ steppingInterval = 0) =>
            /\ trace' = <<>>
            /\ timers' = timers
            /\ steppingInterval' = steppingInterval
            /\ project' = project]_vars

C7_Witness ==
    /\ lastOp[1] = "start"
    /\ trace = <<>>
    /\ steppingInterval # 0
    /\ Cardinality(timers) = 1

\* C8: a tick attempted while no project is bound raises the error and runs
\* no phase: no script step, no monitor launch, no draw.
C8_TickWithoutProject ==
    /\ (lastOp[1] = "tick" /\ project = 0) =>
        trace = << <<"throw", ErrNoProject>> >>
    /\ (lastOp[1] = "start" /\ project = 0 /\ trace # <<>>) =>
        /\ Len(trace) = 2
        /\ trace[1][1] = "setInterval"
        /\ trace[2] = <<"throw", ErrNoProject>>
    /\ (TickCall /\ <<"throw", ErrNoProject>> \in SeqRange(trace)) =>
        /\ project = 0
        /\ ~Has(trace, "stepThreads")
        /\ ~Has(trace, "launch")
        /\ ~Has(trace, "draw")

C8_Witness ==
    /\ lastOp[1] = "tick"
    /\ project = 0
    /\ renderer # 0
    /\ trace = << <<"throw", ErrNoProject>> >>

\* C9: in every tick with a project and a stage bound the draw phase runs,
\* also when the monitor update of that tick fails.
C9_DrawDespiteMonitorError ==
    (TickCall /\ project # 0 /\ renderer # 0 /\ Has(trace, "stepThreads"))
        => Has(trace, "draw")

\* C10: when the Renderer constructor throws in attachStage, the runtime is
\* left with no renderer, no stage, no input listeners, no pending stage
\* teardown, and the interpreter's renderer is null.
C10_FailedAttachLeavesNothing ==
    (lastOp[1] = "attachStage" /\ <<"throw", ErrRenderer>> \in SeqRange(trace)) =>
        /\ renderer = 0
        /\ stage = 0
        /\ renderers = {}
        /\ stageListeners = {}
        /\ unsetPreviousStage = NoStageClosure
        /\ interpRenderer = 0
        /\ trace[Len(trace)] = <<"throw", ErrRenderer>>

C10_Witness ==
    /\ lastOp[1] = "attachStage"
    /\ <<"throw", ErrRenderer>> \in SeqRange(trace)
    /\ Has(trace, "renderer.destroy")
    /\ lastOp[2] \in detachedStages

\* ------------------------------------------------------- monitor views
ViewCreations(tr) == Cardinality(At(tr, "createMonitorView"))
ViewRemovals(tr) == Cardinality(At(tr, "view.remove"))

\* C11: each monitor has at most one view, and a monitor that is not visible
\* and has just announced an update has no tracked view.
C11_ViewsFollowVisibility ==
    /\ \A m \in Monitors : Cardinality({l \in sliderListeners : l[2] = m}) <= 1
    /\ \A m, o \in Tracked(Cur) : monitorViews[m] = monitorViews[o] => m = o
    /\ (lastOp[1] = "updatemonitor" /\ ~visible[lastOp[2]]) =>
        monitorViews[lastOp[2]] = 0

\* C12: with a project and a stage bound, an update announced by a monitor of
\* the project creates exactly one view when the monitor is visible and has
\* none, creates none when it has one, and removes the view together with its
\* slider listener when the monitor is not visible.
C12_ViewLifecycle ==
    [][\A m \in Monitors :
        (/\ lastOp' = <<"updatemonitor", m>>
         /\ project # 0 /\ stage # 0
         /\ m \in SeqRange(monitors[project])) =>
            /\ (visible[m] /\ monitorViews[m] = 0) =>
                /\ ViewCreations(trace') = 1 /\ ViewRemovals(trace') = 0
                /\ monitorViews'[m] # 0
            /\ (visible[m] /\ monitorViews[m] # 0) =>
                /\ ViewCreations(trace') = 0 /\ ViewRemovals(trace') = 0
                /\ monitorViews'[m] = monitorViews[m]
            /\ (~visible[m] /\ monitorViews[m] # 0) =>
                /\ ViewCreations(trace') = 0 /\ ViewRemovals(trace') = 1
                /\ monitorViews'[m] = 0
                /\ \A l \in sliderListeners' : l[1] # monitorViews[m]
            /\ (~visible[m] /\ monitorViews[m] = 0) =>
                ViewCreations(trace') = 0 /\ ViewRemovals(trace') = 0
      ]_vars

\* The monitors whose bounds the last call collected.
CollectedBounds == {trace[i][2] : i \in At(trace, "getBounds")}

\* C13: when an update places a monitor, the rectangles the placement is
\* computed against are the bounds of every other monitor that shows a view,
\* and the slot assigned differs from the slot of each of them.
C13_PlacementAvoidsShown ==
    (lastOp[1] = "updatemonitor" /\ Has(trace, "layout")) =>
        LET m == lastOp[2]
            others == Tracked(Cur) \ {m}
        IN /\ CollectedBounds = others
           /\ \A i \in At(trace, "layout") : position[m] = trace[i][2]
           /\ \A o \in others : position[o] # position[m]

C13_Witness ==
    /\ lastOp[1] = "updatemonitor"
    /\ Has(trace, "layout")
    /\ Tracked(Cur) \ {lastOp[2]} # {}
    /\ position[lastOp[2]] = 2

\* C19: the placement assigns a position only to a monitor that has none, at
\* most once in a call; a position, once recorded, is changed by no call; the
\* update dispatched by the assignment is handled once and places nothing.
C19_PositionAssignedOnce ==
    [][/\ \A m \in Monitors : position[m] # 0 => position'[m] = position[m]
       /\ Cardinality(At(trace', "layout")) <= 1
       /\ Has(trace', "layout") =>
            /\ lastOp'[1] = "updatemonitor"
            /\ position[lastOp'[2]] = 0
            /\ position'[lastOp'[2]] # 0
            /\ \A i \in At(trace', "layout") :
                position'[lastOp'[2]] = trace'[i][2]
            /\ Cardinality(At(trace', "on.updatemonitor")) = 2
       /\ \A m \in Monitors : position'[m] # position[m] =>
            \/ lastOp' = <<"createmonitor", m>>
            \/ lastOp' = <<"updatemonitor", m>> /\ Has(trace', "layout")
      ]_vars

C19_Witness ==
    /\ lastOp[1] = "updatemonitor"
    /\ Cardinality(At(trace, "layout")) = 1
    /\ Cardinality(At(trace, "on.updatemonitor")) = 2
    /\ Cardinality(At(trace, "view.update")) = 3
    /\ position[lastOp[2]] # 0

\* ------------------------------------------------------- anyAbortSignal
\* The inputs of the combination that are signals.
CombinedInputs == SeqRange(anyAbort.signals) \ {0}

\* C14: from the return of anyAbortSignal on, the returned signal has fired
\* exactly when one of the inputs that are signals has fired; it fires once,
\* by one run of onAbort, however many inputs fire.
C14_FiredIffInputFired ==
    /\ anyAbort.returned =>
        (anyAbort.fired <=> CombinedInputs \cap anyAbort.aborted # {})
    /\ ~anyAbort.returned => ~anyAbort.fired
    /\ anyAbort.abortEvents = (IF anyAbort.fired THEN 1 ELSE 0)
    /\ anyAbort.onAbortCalls = anyAbort.abortEvents

C14_Witness ==
    /\ anyAbort.returned
    /\ anyAbort.fired
    /\ 0 \in SeqRange(anyAbort.signals)
    /\ Cardinality(CombinedInputs \cap anyAbort.aborted) = 2
    /\ anyAbort.abortEvents = 1

\* C15: once the returned signal has fired, onAbort is registered on no input;
\* it is never registered on an input that has fired.
C15_NoListenerAfterFiring ==
    /\ anyAbort.fired => anyAbort.listeners = {}
    /\ anyAbort.listeners \subseteq CombinedInputs \ anyAbort.aborted

C15_Witness ==
    /\ anyAbort.returned
    /\ anyAbort.fired
    /\ anyAbort.listeners = {}
    /\ Len(anyAbort.signals) = 3
    /\ anyAbort.signals[1] \in InputSignals \ anyAbort.aborted
    /\ anyAbort.signals[2] \in anyAbort.aborted
    /\ anyAbort.signals[3] \in InputSignals \ anyAbort.aborted

\* ------------------------------------------------------------- input
\* The last two calls are a keydown and a keyup of the same recognized key.
KeyRoundTrip ==
    /\ lastOp[1] = "keyup"
    /\ keyHistory.down # ""
    /\ keyHistory.up = keyHistory.down
    /\ DomToScratchKey(keyHistory.down) # ""

\* C16 as stated: a keydown and then a keyup of the same recognized key leave
\* the set of held keys as it was before the keydown, whatever it was.
C16_KeyRoundTrip == KeyRoundTrip => keysDown = keyHistory.before

\* C16, amended: a keydown and then a keyup of the same recognized key leave
\* the set of held keys as it was before the keydown when the key was not held
\* before the keydown.
C16_KeyRoundTripNotHeld ==
    (KeyRoundTrip /\ DomToScratchKey(keyHistory.down) \notin keyHistory.before)
        => keysDown = keyHistory.before

C16_Witness ==
    /\ KeyRoundTrip
    /\ keyHistory.before # {}
    /\ DomToScratchKey(keyHistory.down) \notin keyHistory.before
    /\ DomToScratchKey(keyHistory.down) \in keyHistory.after
    /\ Has(trace, "on.keyup")
    /\ keysDown = keyHistory.before

\* The fields of the Runtime and of the objects it is bound to.
programVars ==
    <<project, renderer, stage, monitorViews, steppingInterval,
      unregisterPreviousProject, unsetPreviousStage, interpProject,
      interpRenderer, mousePosition, mouseDown, keysDown, timers, registered,
      renderers, stageListeners, projectListeners, monitorListeners,
      sliderListeners, monitors, visible, position>>

\* C17: a keydown or keyup of a key without a translation changes no field
\* (the held keys, the pointer position and the pointer flag included), does
\* not suppress the default action and starts no hats; a keyup of any key
\* starts no hats.
C17_UnrecognizedKeyIgnored ==
    [][/\ ((\/ lastOp'[1] = "keydown" /\ DomToScratchKey(keyHistory'.down) = ""
            \/ lastOp'[1] = "keyup" /\ DomToScratchKey(keyHistory'.up) = "") =>
            /\ UNCHANGED programVars
            /\ ~Has(trace', "preventDefault")
            /\ ~Has(trace', "startHats"))
       /\ lastOp'[1] = "keyup" =>
            ~Has(trace', "startHats") /\ ~Has(trace', "preventDefault")
      ]_vars

C17_Witness ==
    /\ lastOp[1] = "keydown"
    /\ lastOp[2] = stage
    /\ keyHistory.down = "F1"
    /\ trace = <<<<"on.keydown", unsetPreviousStage.scope>>>>
    /\ keysDown # {}
    /\ mouseDown

InBounds(v, lo, hi) == v[1] = "num" /\ lo <= v[2] /\ v[2] <= hi

\* C18: the stored pointer position is inside the stage bounds, -240..240 by
\* -180..180, after every pointermove, whatever the client position and the
\* bounding rectangle of the stage element.
C18_PointerInsideStage ==
    /\ InBounds(mousePosition[1], StageLeft, StageRight)
    /\ InBounds(mousePosition[2], StageBottom, StageTop)

\* The targets clicked and the results of renderer.pick in the last call.
Clicked == {trace[i][2] : i \in At(trace, "click")}
Picked == {trace[i][2] : i \in At(trace, "pick")}

\* C20 as stated: a pointerdown on the attached stage sets the pointer flag
\* and, with a project bound, clicks exactly one target, the one hit or else
\* the stage target; without a project it clicks none. A pointerup clears the
\* flag and clicks nothing.
C20_ClickOnPointerDown ==
    /\ (lastOp[1] = "pointerdown" /\ lastOp[2] = stage) =>
        /\ mouseDown
        /\ project # 0 =>
            /\ Cardinality(At(trace, "click")) = 1
            /\ Clicked \subseteq (Picked \ {0}) \cup {StageTarget}
            /\ Picked # {0} => Clicked = Picked
        /\ project = 0 => Clicked = {}
    /\ (lastOp[1] = "pointerup" /\ stage # 0) =>
        ~mouseDown /\ Clicked = {}

\* C20, amended: as C20, but when nothing is hit and the project has no stage
\* target the pointerdown clicks nothing.
C20_ClickWhereTargetExists ==
    /\ (lastOp[1] = "pointerdown" /\ lastOp[2] = stage) =>
        /\ mouseDown
        /\ project # 0 =>
            /\ Cardinality(Picked) = 1
            /\ Picked # {0} =>
                Clicked = Picked /\ Cardinality(At(trace, "click")) = 1
            /\ (Picked = {0} /\ hasStage[project]) =>
                Clicked = {StageTarget} /\ Cardinality(At(trace, "click")) = 1
            /\ (Picked = {0} /\ ~hasStage[project]) => Clicked = {}
        /\ project = 0 => Clicked = {}
    /\ (lastOp[1] = "pointerup" /\ stage # 0) =>
        ~mouseDown /\ Clicked = {}

C20_Witness ==
    /\ lastOp[1] = "pointerdown"
    /\ lastOp[2] = stage
    /\ project # 0
    /\ Picked = {0}
    /\ Clicked = {StageTarget}
    /\ mouseDown

\* ---------------------------------------------------- bindings and loop
\* C21: setProject and destroy leave the pointer position, the pointer flag
\* and the set of held keys as they were before the call.
C21_InputSurvivesProjectSwap ==
    [][lastOp'[1] \in {"setProject", "destroy"} =>
        UNCHANGED <<mousePosition, mouseDown, keysDown>>]_vars

C21_Witness ==
    /\ lastOp[1] = "setProject"
    /\ lastOp[2] # 0
    /\ Has(trace, "unregister")
    /\ keysDown # {}
    /\ mouseDown
    /\ mousePosition # <<Num(0), Num(0)>>

\* C22: after every call the project and the renderer the interpreter was last
\* given are the project and the renderer of the Runtime.
C22_EngineBindingsAgree ==
    /\ interpProject = project
    /\ interpRenderer = renderer

C22_Witness ==
    /\ lastOp[1] = "destroy"
    /\ Has(trace, "interp.setProject")
    /\ interpProject = 0
    /\ interpRenderer # 0
    /\ interpRenderer = renderer

\* C23: attachStage changes no entry of the tracking map and no slider
\* listener; without a stage the update of a hidden monitor leaves its tracked
\* view; an entry is removed only by the update of its monitor with a stage
\* attached or by setProject or destroy.
C23_AttachStageKeepsViews ==
    [][/\ lastOp'[1] = "attachStage" =>
            UNCHANGED <<monitorViews, sliderListeners>>
       /\ \A m \in Monitors :
            /\ (/\ lastOp' = <<"updatemonitor", m>>
                /\ stage = 0 /\ ~visible[m]) =>
                    /\ UNCHANGED <<monitorViews, sliderListeners>>
                    /\ ~Has(trace', "view.remove")
            /\ (monitorViews[m] # 0 /\ monitorViews'[m] = 0) =>
                    \/ lastOp'[1] \in {"setProject", "destroy"}
                    \/ lastOp' = <<"updatemonitor", m>> /\ stage # 0
      ]_vars

C23_Witness ==
    /\ lastOp[1] = "updatemonitor"
    /\ stage = 0
    /\ ~visible[lastOp[2]]
    /\ monitorViews[lastOp[2]] # 0
    /\ Has(trace, "on.updatemonitor")

\* What C24 says of every call but a tick with a project bound: start without
\* a project arms the timer and then throws, leaving the loop running; a tick
\* without a project throws and leaves the loop running; binding a project
\* leaves it running; start while running does nothing; stop ends it.
StartWithoutProjectSteps ==
    /\ (lastOp'[1] = "start" /\ steppingInterval = 0 /\ project = 0) =>
        /\ Len(trace') = 2
        /\ trace'[1] = <<"setInterval", steppingInterval'>>
        /\ trace'[2] = <<"throw", ErrNoProject>>
        /\ steppingInterval' # 0
        /\ timers' = {steppingInterval'}
    /\ (lastOp'[1] = "tick" /\ project = 0) =>
        /\ trace' = << <<"throw", ErrNoProject>> >>
        /\ UNCHANGED <<steppingInterval, timers>>
    /\ (lastOp'[1] = "setProject" /\ project = 0) =>
        UNCHANGED <<steppingInterval, timers>>
    /\ (lastOp'[1] = "start" /\ steppingInterval # 0) =>
        /\ trace' = <<>>
        /\ UNCHANGED <<steppingInterval, timers>>
    /\ lastOp'[1] = "stop" => steppingInterval' = 0 /\ timers' = {}

\* C24 as stated: StartWithoutProjectSteps, and every tick with a project
\* bound succeeds.
C24_StartWithoutProject ==
    [][/\ StartWithoutProjectSteps
       /\ (lastOp'[1] = "tick" /\ project # 0) =>
            /\ Has(trace', "stepThreads")
            /\ ~Has(trace', "throw")
      ]_vars

\* C24, amended: StartWithoutProjectSteps, and a tick with a project bound
\* steps the threads without the error of the missing project; it succeeds
\* when the project has a stage target.
C24_StartWithoutProjectThenBind ==
    [][/\ StartWithoutProjectSteps
       /\ (lastOp'[1] = "tick" /\ project # 0) =>
            /\ Has(trace', "stepThreads")
            /\ <<"throw", ErrNoProject>> \notin SeqRange(trace')
            /\ hasStage[project] => ~Has(trace', "throw")
      ]_vars

C24_Witness ==
    /\ lastOp[1] = "start"
    /\ project = 0
    /\ Len(trace) = 2
    /\ trace[2] = <<"throw", ErrNoProject>>
    /\ steppingInterval # 0
    /\ timers = {steppingInterval}

====
